---- MODULE Spec2Model ----
(***************************************************************************)
(* The media-judging pipeline of Agentic-Judges: the POST handler of the   *)
(* /api/judge route (src/unnamed/part_005) in its two revisions, the       *)
(* tmpdir revision (lines 1-228) and the working-directory revision        *)
(* (lines 230-478), with extractAudio, judgeContent and the temp-file      *)
(* cleanup.                                                                *)
(*                                                                         *)
(* Texts are sequences of tokens; s.includes(p) for a phrase p is          *)
(* membership of the token p.  A JSON value is a record tagged by t.       *)
(***************************************************************************)
EXTENDS Integers, Sequences, FiniteSets, TLC

\* ------------------------------------------------------------------ bounds
\* longest score string / transcript (in characters / tokens) that is drawn
MaxStrLen == 2
\* most stderr "data" events one ffmpeg process delivers
MaxChunks == 2
MaxJobs == 2

\* --------------------------------------------------------- program constants
MaxFileSize == 50 * 1024 * 1024

validTypes ==
    {"video/mp4", "video/webm", "video/quicktime", "video/x-msvideo", "video/x-matroska"}

Revisions == {"tmpdir", "cwd"}

NoStreamMarker == "Output file does not contain any stream"
NoAudioPhrase == "No audio track found"
NoSpeechPhrase == "No speech detected"

NoAudioMsg == <<NoAudioPhrase, " in the video. Please upload a video with sound.">>
NoSpeechMsg == <<NoSpeechPhrase, " in video.">>

\* ------------------------------------------------------------ text helpers
SeqsUpTo(S, n) == UNION {[1..k -> S] : k \in 0..n}

includes(s, phrase) == \E i \in 1..Len(s) : s[i] = phrase

WhiteSpace == {" ", "\n"}

RECURSIVE trimStart(_)
trimStart(s) ==
    IF s # <<>> /\ Head(s) \in WhiteSpace THEN trimStart(Tail(s)) ELSE s

RECURSIVE trimEnd(_)
trimEnd(s) ==
    IF s # <<>> /\ s[Len(s)] \in WhiteSpace THEN trimEnd(SubSeq(s, 1, Len(s) - 1)) ELSE s

trim(s) == trimEnd(trimStart(s))

Min(a, b) == IF a < b THEN a ELSE b
Max(a, b) == IF a > b THEN a ELSE b

\* ------------------------------------------------------------- JSON values
Undefined == [t |-> "undefined"]
Null == [t |-> "null"]
Str(s) == [t |-> "str", s |-> s]
Num(n) == [t |-> "num", n |-> n, frac |-> FALSE]
\* a number with a fractional part, n its integer part (72.9 is Frac(72))
Frac(n) == [t |-> "num", n |-> n, frac |-> TRUE]
\* d * 10^21, which String() prints in exponent form "de+21"
Big(d) == [t |-> "big", lead |-> d]
Bool(b) == [t |-> "bool", b |-> b]
Arr == [t |-> "array"]
Obj(score, feedback) == [t |-> "object", score |-> score, feedback |-> feedback]
NaN == [t |-> "nan"]

Digits == {"0", "7"}
DigitVal(c) == IF c = "7" THEN 7 ELSE 0

\* the value of the longest prefix of digits of s, or NaN when it is empty
RECURSIVE digitPrefix(_, _, _)
digitPrefix(s, acc, seen) ==
    IF s # <<>> /\ Head(s) \in Digits
    THEN digitPrefix(Tail(s), 10 * acc + DigitVal(Head(s)), TRUE)
    ELSE IF seen THEN Num(acc) ELSE NaN

\* parseInt of a string: skip white space, an optional sign, then digits
parseIntStr(s) ==
    LET u == trimStart(s)
        neg == u # <<>> /\ Head(u) = "-"
        body == IF neg THEN Tail(u) ELSE u
        r == digitPrefix(body, 0, FALSE)
    IN  IF r = NaN THEN NaN ELSE IF neg THEN Num(0 - r.n) ELSE r

\* parseInt(v): String(v), then parseIntStr
parseInt(v) ==
    CASE v.t = "num" -> Num(v.n)
      [] v.t = "big" -> Num(v.lead)
      [] v.t = "str" -> parseIntStr(v.s)
      [] OTHER -> NaN

\* JavaScript truthiness
Truthy(v) ==
    CASE v.t \in {"undefined", "null", "nan"} -> FALSE
      [] v.t = "num" -> v.n # 0 \/ v.frac
      [] v.t = "str" -> v.s # <<>>
      [] v.t = "bool" -> v.b
      [] OTHER -> TRUE

\* a || b
OrElse(a, b) == IF Truthy(a) THEN a ELSE b

\* ------------------------------------------------------------ judgeContent
\* what the judging service puts in choices[0].message.content: nothing
\* (null, undefined or ""), a text that is not JSON, or the text of a JSON value
NoContent == [k |-> "none"]
Text(s) == [k |-> "text", s |-> s]
Json(v) == [k |-> "json", v |-> v]

DefaultFeedback == Str(<<"No feedback generated.">>)
DefaultScore == 50

\* content || "{}"
contentOrEmptyObject(content) ==
    IF content.k = "none" THEN Json(Obj(Undefined, Undefined)) ELSE content

\* a fallback that drops the content and uses the default feedback
RawTextDropped(c) == DefaultFeedback

\* the content as the string it is
RawText(c) == IF c.k = "text" THEN Str(c.s) ELSE Str(<<c.v.t>>)

\* parsed.feedback / parsed.score: a property of an object, undefined on any
\* other non-null value
Field(v, name) ==
    IF v.t = "object" THEN (IF name = "score" THEN v.score ELSE v.feedback) ELSE Undefined

\* a clamp that forgets the upper end
clampScoreNoUpper(x) == Max(1, x)

\* Math.min(100, Math.max(1, x))
clampScore(x) == Min(100, Max(1, x))

\* parseInt(parsed.score) || 50
scoreOrDefault(v) ==
    LET p == parseInt(v) IN IF Truthy(p) THEN p.n ELSE DefaultScore

\* lines 350-359 (96-105): JSON.parse throws on a non-JSON text, the property
\* access throws on null; both land in the catch
judgeParse(content) ==
    LET c == contentOrEmptyObject(content) IN
    IF c.k = "json" /\ c.v.t # "null"
    THEN [feedback |-> OrElse(Field(c.v, "feedback"), DefaultFeedback),
          score |-> clampScore(scoreOrDefault(Field(c.v, "score")))]
    ELSE [feedback |-> RawText(c), score |-> DefaultScore]

\* ------------------------------------------------------------ input domains
StrChars == {"7", "0", "-", "x", " "}
ScoreInts == {0 - 5, 0 - 1, 0, 1, 72, 100, 101, 150}
ScoreVals ==
    {Undefined, Null, Bool(TRUE), Arr, Frac(0), Frac(72), Big(1), Big(7)}
        \cup {Num(n) : n \in ScoreInts}
        \cup {Str(s) : s \in SeqsUpTo(StrChars, MaxStrLen)}
FeedbackVals == {Undefined, Str(<<>>), Str(<<"good">>), Num(0), Num(5), Arr}
Contents ==
    {NoContent, Text(<<"plain text response">>), Text(<<" ">>),
     Json(Null), Json(Num(5)), Json(Str(<<"x">>)), Json(Arr)}
        \cup {Json(Obj(s, Str(<<"good">>))) : s \in ScoreVals}
        \cup {Json(Obj(Num(72), f)) : f \in FeedbackVals}

TranscriptChars == {" ", "hi"}
\* what the transcription call resolves to with response_format "text"
Transcripts == {Undefined} \cup {Str(s) : s \in SeqsUpTo(TranscriptChars, MaxStrLen)}

\* messages of the errors the external calls reject with
ParseErrs == {<<"Failed to parse body as FormData.">>}
WriteErrs == {<<"ENOENT: no such file or directory, open">>, <<"ENOSPC: no space left on device, write">>}
SpawnErrs == {<<"spawn ffmpeg ENOENT">>, <<"spawn ffmpeg EACCES">>}
FluentErrs == {<<"Cannot find ffmpeg">>, <<"ffmpeg exited with code 1: junk">>}
TranscribeErrs == {<<"transcription: Connection error.">>, <<"transcription: 429 rate limit">>}
JudgeErrs == {<<"completion: Connection error.">>, <<"completion: 429 rate limit">>}

StderrTokens == {"junk", NoStreamMarker, NoAudioPhrase, NoSpeechPhrase}
ExitCodes == {0, 1}

\* a file name is its "."-separated segments, a segment its "/"-separated
\* components: "talk.mp4" is << <<"talk">>, <<"mp4">> >>
FileNames ==
    { << <<"talk">>, <<"mp4">> >>,
      << <<"talk">>, <<"wav">> >>,
      << <<"talk">> >>,
      << <<"talk">>, <<"">> >>,
      << <<"a">>, <<"x", "..", "..", "y">> >> }
FileSizes == {1, MaxFileSize, MaxFileSize + 1, 2 * MaxFileSize}
FileTypes == validTypes \cup {"application/pdf", ""}

\* the request body: no form data at all, or a form whose "video" field is
\* absent, a string, or a File
Malformed == [kind |-> "malformed"]
NoField == [kind |-> "none"]
StringField == [kind |-> "string"]
Files == [kind : {"file"}, name : FileNames, size : FileSizes, type : FileTypes]
Uploads == {Malformed, NoField, StringField} \cup Files

\* -------------------------------------------------------------- temp paths
\* a path is its components, a component a name and the extension that
\* follows its "." ("" when it has none); "" is the empty path
Comp(n, x) == [n |-> n, x |-> x]
NoPath == <<>>
TMP_DIR == <<Comp("tmp", ""), Comp("agentic-judges", "")>>
\* the directories that exist: the working directory, the system temp
\* directory and TMP_DIR (ensureTmpDir)
Dirs == {<<>>, <<Comp("tmp", "")>>, TMP_DIR}

\* file.name.split(".").pop() || "mp4"
extOf(name) ==
    LET last == name[Len(name)] IN IF last = <<"">> THEN <<"mp4">> ELSE last

\* `${id}.${ext}`
template(id, ext) ==
    <<Comp(id, ext[1])>> \o [i \in 1..(Len(ext) - 1) |-> Comp(ext[i + 1], "")]

\* path.join(dir, rel): concatenate and normalize ".." away
RECURSIVE normalize(_, _)
normalize(done, rest) ==
    IF rest = <<>> THEN done
    ELSE IF Head(rest) = Comp("..", "")
         THEN normalize(IF done = <<>> THEN done ELSE SubSeq(done, 1, Len(done) - 1),
                        Tail(rest))
         ELSE normalize(Append(done, Head(rest)), Tail(rest))

join(dir, rel) == normalize(<<>>, dir \o rel)

videoPathOf(r, id, name) ==
    IF r = "tmpdir" THEN join(TMP_DIR, template(id, extOf(name)))
    ELSE template(id, extOf(name))

audioPathOf(r, id) ==
    IF r = "tmpdir" THEN join(TMP_DIR, template(id, <<"wav">>))
    ELSE template(id, <<"wav">>)

\* the directory a path lies in, as the operating system resolves it: in a
\* relative path ".." is not normalized away and every directory on the way
\* has to exist
parentOf(path) == SubSeq(path, 1, Len(path) - 1)
ParentExists(path) == parentOf(path) \in Dirs

\* uuidv4()
JobId == "uuid-1"

\* ------------------------------------------------------------------- state
VARIABLES
    rev,         \* the revision of the route that runs
    upload,      \* the request body
    pc,          \* where POST stands
    videoPath, audioPath,
    fs,          \* the files that exist
    proc,        \* the ffmpeg child process: its state and the events emitted
    stderr,      \* extractAudio's accumulated diagnostic text
    promise,     \* the promise extractAudio returned
    transcript,  \* what transcribeAudio resolved to
    content,     \* what the judging service answered
    judged,      \* what judgeContent returned
    inserted,    \* the record handed to the insert
    db,          \* the rows of the judgments table
    resp,        \* the response the return statement produced
    returned,    \* the responses handed to the caller
    thrown,      \* the message of the error POST's catch block caught
    judgeArg,    \* the transcript judgeContent was called with
    page,        \* the results page: the feedback text it was given and what
                 \* parseFeedback made of it
    jobs,        \* the requests being served side by side, each with its own
                 \* id, file name, paths and position in POST
    calls,       \* how often each external call was made
    log          \* what console.error wrote

vars == <<rev, upload, pc, videoPath, audioPath, fs, proc, stderr, promise,
          transcript, content, judged, inserted, db, resp, returned, thrown, jobs,
          judgeArg, page, calls, log>>

NoResp == [status |-> 0]
ErrorResp(status, msg) == [status |-> status, body |-> [error |-> msg]]
NoProc == [state |-> "none", chunks |-> 0, error |-> FALSE, close |-> FALSE, code |-> 0]
NoPromise == [state |-> "none"]
NoJudged == [score |-> 0]
NoRecord == [score |-> 0]
NoError == <<>>
NoJobs == <<>>
NoArg == <<>>
NoPage == [shown |-> FALSE]

Init ==
    /\ rev \in Revisions
    /\ upload \in Uploads
    /\ pc = "parse"
    /\ videoPath = NoPath
    /\ audioPath = NoPath
    /\ fs = {}
    /\ proc = NoProc
    /\ stderr = <<>>
    /\ promise = NoPromise
    /\ transcript = Undefined
    /\ content = NoContent
    /\ judged = NoJudged
    /\ inserted = NoRecord
    /\ db = {}
    /\ resp = NoResp
    /\ returned = <<>>
    /\ thrown = NoError
    /\ jobs = NoJobs
    /\ judgeArg = NoArg
    /\ page = NoPage
    /\ calls = [write |-> 0, check |-> 0, extract |-> 0, transcribe |-> 0, judge |-> 0,
                insert |-> 0, unlink |-> 0]
    /\ log = {}

\* ------------------------------------------------------------ POST: exits
\* a catch block that logs and answers nothing
catchResponseNone(r, errMsg) == NoResp

\* a catch block that answers every error alike
catchResponseSame(r, errMsg) ==
    ErrorResp(500, <<"Failed to process video. Please try again.">>)

\* the catch block: lines 441-452 (cwd revision), 194-199 (tmpdir revision)
catchResponse(r, errMsg) ==
    IF r = "cwd"
    THEN IF includes(errMsg, NoAudioPhrase) \/ includes(errMsg, NoSpeechPhrase)
         THEN ErrorResp(422, errMsg)
         ELSE ErrorResp(500, <<"Failed to process video: ">> \o errMsg)
    ELSE ErrorResp(500, <<"Failed to process video. Please try again.">>)

\* an error thrown inside the try block: caught, logged, answered; the
\* finally block is next
Throw(errMsg) ==
    /\ thrown' = errMsg
    /\ resp' = catchResponse(rev, errMsg)
    /\ log' = log \cup {"api"}
    /\ pc' = "finallyVideo"

\* a return statement inside the try block; the finally block is next
Respond(r) ==
    /\ resp' = r
    /\ thrown' = thrown
    /\ pc' = "finallyVideo"

Called(name) == calls' = [calls EXCEPT ![name] = @ + 1]

\* ------------------------------------------------- POST: parse and validate
\* request.formData() rejects (a body that is no form data)
ParseFails ==
    /\ UNCHANGED <<jobs, judgeArg, page>>
    /\ pc = "parse"
    /\ upload.kind = "malformed"
    /\ \E m \in ParseErrs : Throw(m)
    /\ UNCHANGED <<rev, upload, videoPath, audioPath, fs, proc, stderr, promise,
                   transcript, content, judged, inserted, db, returned, calls>>

\* a size check that turns away the maximum itself
tooLargeAtLimit(f) == IF f.kind = "file" THEN f.size >= MaxFileSize ELSE FALSE

\* a type check that lets every File through
typeInvalidNever(f) == f.kind # "file"

\* !file: null, and the empty string; a non-empty string field has neither a
\* size nor a type
fileMissing(f) == f.kind = "none"
tooLarge(f) == IF f.kind = "file" THEN f.size > MaxFileSize ELSE FALSE
typeInvalid(f) == IF f.kind = "file" THEN f.type \notin validTypes ELSE TRUE

RejectNoFile ==
    /\ UNCHANGED <<jobs, judgeArg, page>>
    /\ pc = "parse"
    /\ upload.kind # "malformed"
    /\ fileMissing(upload)
    /\ Respond(ErrorResp(400, <<"No video file provided">>))
    /\ UNCHANGED <<rev, upload, videoPath, audioPath, fs, proc, stderr, promise,
                   transcript, content, judged, inserted, db, returned, calls, log>>

RejectTooLarge ==
    /\ UNCHANGED <<jobs, judgeArg, page>>
    /\ pc = "parse"
    /\ upload.kind # "malformed"
    /\ ~fileMissing(upload)
    /\ tooLarge(upload)
    /\ Respond(ErrorResp(400, <<"File too large. Maximum size is 50MB.">>))
    /\ UNCHANGED <<rev, upload, videoPath, audioPath, fs, proc, stderr, promise,
                   transcript, content, judged, inserted, db, returned, calls, log>>

RejectType ==
    /\ UNCHANGED <<jobs, judgeArg, page>>
    /\ pc = "parse"
    /\ upload.kind # "malformed"
    /\ ~fileMissing(upload)
    /\ ~tooLarge(upload)
    /\ typeInvalid(upload)
    /\ Respond(ErrorResp(400,
           <<"Invalid file type. Please upload an MP4, WebM, MOV, AVI, or MKV file.">>))
    /\ UNCHANGED <<rev, upload, videoPath, audioPath, fs, proc, stderr, promise,
                   transcript, content, judged, inserted, db, returned, calls, log>>

\* the upload passes: the job gets its id and its two paths
Accept ==
    /\ UNCHANGED <<thrown, jobs, judgeArg, page>>
    /\ pc = "parse"
    /\ upload.kind # "malformed"
    /\ ~fileMissing(upload)
    /\ ~tooLarge(upload)
    /\ ~typeInvalid(upload)
    /\ videoPath' = videoPathOf(rev, JobId, upload.name)
    /\ audioPath' = audioPathOf(rev, JobId)
    /\ pc' = "write"
    /\ UNCHANGED <<rev, upload, fs, proc, stderr, promise, transcript, content,
                   judged, inserted, db, resp, returned, calls, log>>

\* ------------------------------------------------------ POST: save the video
WriteFileOk ==
    /\ UNCHANGED <<thrown, jobs, judgeArg, page>>
    /\ pc = "write"
    /\ ParentExists(videoPath)
    /\ fs' = fs \cup {videoPath}
    /\ Called("write")
    /\ pc' = "extract"
    /\ UNCHANGED <<rev, upload, videoPath, audioPath, proc, stderr, promise,
                   transcript, content, judged, inserted, db, resp, returned, log>>

\* writeFile rejects: the directory is missing, or the write fails and leaves
\* a partial file or none
WriteFileFails ==
    /\ UNCHANGED <<jobs, judgeArg, page>>
    /\ pc = "write"
    /\ \E partial \in BOOLEAN, m \in WriteErrs :
          /\ partial => ParentExists(videoPath)
          /\ fs' = IF partial THEN fs \cup {videoPath} ELSE fs
          /\ Throw(m)
    /\ Called("write")
    /\ UNCHANGED <<rev, upload, videoPath, audioPath, proc, stderr, promise,
                   transcript, content, judged, inserted, db, returned>>

\* ------------------------------------------------------------ extractAudio
\* resolve() and reject(err): the first settlement stands
resolve(p) == IF p.state = "pending" THEN [state |-> "resolved"] ELSE p
\* a rejection that replaces an earlier settlement
rejectLast(p, err) == [state |-> "rejected", err |-> err]

\* a rejection that is never delivered: the promise stays pending
rejectDropped(p, err) == p

\* a rejection that settles the promise as fulfilled
rejectAsResolve(p, err) == IF p.state = "pending" THEN [state |-> "resolved"] ELSE p
reject(p, err) == IF p.state = "pending" THEN [state |-> "rejected", err |-> err] ELSE p

\* a close handler that does not look for the marker
closeErrorGeneric(code, text) ==
    <<"ffmpeg exited with code ", ToString(code), ": ">> \o text

\* the error the close handler rejects with, lines 281-288
closeError(code, text) ==
    IF includes(text, NoStreamMarker) THEN NoAudioMsg
    ELSE <<"ffmpeg exited with code ", ToString(code), ": ">> \o text

\* cwd revision, lines 244-297: spawn "ffmpeg -version" (its error handler
\* only logs), then spawn the extraction and listen
Spawn ==
    /\ UNCHANGED <<thrown, jobs, judgeArg, page>>
    /\ pc = "extract"
    /\ rev = "cwd"
    /\ proc' = [state |-> "running", chunks |-> 0, error |-> FALSE, close |-> FALSE,
                code |-> 0]
    /\ stderr' = <<>>
    /\ promise' = [state |-> "pending"]
    /\ calls' = [calls EXCEPT !.check = @ + 1, !.extract = @ + 1]
    /\ pc' = "awaitExtract"
    /\ UNCHANGED <<rev, upload, videoPath, audioPath, fs, transcript, content,
                   judged, inserted, db, resp, returned, log>>

\* stderr "data": stderr += data.toString()
StderrData ==
    /\ UNCHANGED <<thrown, jobs, judgeArg, page>>
    /\ rev = "cwd"
    /\ proc.state = "running"
    /\ ~proc.close /\ ~proc.error
    /\ proc.chunks < MaxChunks
    /\ \E tok \in StderrTokens : stderr' = Append(stderr, tok)
    /\ proc' = [proc EXCEPT !.chunks = @ + 1]
    /\ UNCHANGED <<rev, upload, pc, videoPath, audioPath, fs, promise, transcript,
                   content, judged, inserted, db, resp, returned, calls, log>>

\* "close": code 0 resolves, any other code rejects.  A process that ran to
\* code 0 has written the audio file; one that failed may have left a part
\* of it; one that was never launched wrote nothing and closes, after its
\* "error" event, with the negative errno as its code.  After a close with
\* code 0 no handler reads the accumulated text again, and it is dropped
OnClose ==
    /\ UNCHANGED <<thrown, jobs, judgeArg, page>>
    /\ rev = "cwd"
    /\ proc.state = "running"
    /\ ~proc.close
    /\ \E code \in ExitCodes \cup {0 - 2}, audio \in BOOLEAN :
          /\ proc.error <=> code = 0 - 2
          /\ code = 0 => audio
          /\ code = 0 - 2 => ~audio
          /\ proc' = [proc EXCEPT !.close = TRUE, !.code = code, !.chunks = 0]
          /\ promise' = IF code = 0 THEN resolve(promise)
                        ELSE reject(promise, closeError(code, stderr))
          /\ stderr' = IF code = 0 THEN <<>> ELSE stderr
          /\ fs' = IF audio THEN fs \cup {audioPath} ELSE fs
          /\ log' = IF code = 0 THEN log ELSE log \cup {"ffmpeg"}
    /\ UNCHANGED <<rev, upload, pc, videoPath, audioPath, transcript,
                   content, judged, inserted, db, resp, returned, calls>>

\* "error": the process could not be launched; child_process emits it
\* before the "close" of that process
OnError ==
    /\ UNCHANGED <<thrown, jobs, judgeArg, page>>
    /\ rev = "cwd"
    /\ proc.state = "running"
    /\ ~proc.error /\ ~proc.close
    /\ stderr = <<>>
    /\ \E m \in SpawnErrs : promise' = reject(promise, m)
    /\ proc' = [proc EXCEPT !.error = TRUE]
    /\ log' = log \cup {"ffmpeg"}
    /\ UNCHANGED <<rev, upload, pc, videoPath, audioPath, fs, stderr, transcript,
                   content, judged, inserted, db, resp, returned, calls>>

\* tmpdir revision, lines 32-45: fluent-ffmpeg emits "end" or "error", once
FluentRun ==
    /\ UNCHANGED <<thrown, jobs, judgeArg, page>>
    /\ pc = "extract"
    /\ rev = "tmpdir"
    /\ proc' = [state |-> "running", chunks |-> 0, error |-> FALSE, close |-> FALSE,
                code |-> 0]
    /\ promise' = [state |-> "pending"]
    /\ Called("extract")
    /\ pc' = "awaitExtract"
    /\ UNCHANGED <<rev, upload, videoPath, audioPath, fs, stderr, transcript,
                   content, judged, inserted, db, resp, returned, log>>

FluentEnd ==
    /\ UNCHANGED <<thrown, jobs, judgeArg, page>>
    /\ rev = "tmpdir"
    /\ proc.state = "running"
    /\ ~proc.close /\ ~proc.error
    /\ proc' = [proc EXCEPT !.close = TRUE]
    /\ promise' = resolve(promise)
    /\ fs' = fs \cup {audioPath}
    /\ UNCHANGED <<rev, upload, pc, videoPath, audioPath, stderr, transcript,
                   content, judged, inserted, db, resp, returned, calls, log>>

FluentError ==
    /\ UNCHANGED <<thrown, jobs, judgeArg, page>>
    /\ rev = "tmpdir"
    /\ proc.state = "running"
    /\ ~proc.close /\ ~proc.error
    /\ \E m \in FluentErrs, audio \in BOOLEAN :
          /\ promise' = reject(promise, m)
          /\ fs' = IF audio THEN fs \cup {audioPath} ELSE fs
    /\ proc' = [proc EXCEPT !.error = TRUE]
    /\ UNCHANGED <<rev, upload, pc, videoPath, audioPath, stderr, transcript,
                   content, judged, inserted, db, resp, returned, calls, log>>

\* await extractAudio(...) resumes once the promise is settled
\* an extraction that is started and not awaited
ExtractNotAwaited ==
    /\ UNCHANGED <<jobs, judgeArg, page>>
    /\ pc = "awaitExtract"
    /\ pc' = "transcribe"
    /\ UNCHANGED <<rev, upload, videoPath, audioPath, fs, proc, stderr, promise,
                   transcript, content, judged, inserted, db, resp, returned, thrown,
                   calls, log>>

ExtractResolved ==
    /\ UNCHANGED <<thrown, jobs, judgeArg, page>>
    /\ pc = "awaitExtract"
    /\ promise.state = "resolved"
    /\ pc' = "transcribe"
    /\ UNCHANGED <<rev, upload, videoPath, audioPath, fs, proc, stderr, promise,
                   transcript, content, judged, inserted, db, resp, returned, calls, log>>

\* a rejected extraction that is started again instead of thrown
ExtractRejectedRetries ==
    /\ UNCHANGED <<jobs, judgeArg, page>>
    /\ pc = "awaitExtract"
    /\ promise.state = "rejected"
    /\ pc' = "extract"
    /\ UNCHANGED <<rev, upload, videoPath, audioPath, fs, proc, stderr, promise,
                   transcript, content, judged, inserted, db, resp, returned, thrown,
                   calls, log>>

ExtractRejected ==
    /\ UNCHANGED <<jobs, judgeArg, page>>
    /\ pc = "awaitExtract"
    /\ promise.state = "rejected"
    /\ Throw(promise.err)
    /\ UNCHANGED <<rev, upload, videoPath, audioPath, fs, proc, stderr, promise,
                   transcript, content, judged, inserted, db, returned, calls>>

\* ------------------------------------------------- POST: transcribe, judge
\* an emptiness check without the trim
noSpeechNoTrim(t) == ~Truthy(t)

\* the argument of judgeContent, untrimmed
judgeArgUntrimmed(t) == t.s

\* judgeContent(String(transcript).trim())
judgeArgOf(t) == trim(t.s)

\* !transcript || String(transcript).trim().length === 0
noSpeech(t) == ~Truthy(t) \/ trim(t.s) = <<>>

\* the exit taken on an empty transcript: a thrown Error (line 424), or a
\* returned 422 (lines 161-166)
NoSpeechExit ==
    IF rev = "cwd" THEN Throw(NoSpeechMsg)
    ELSE /\ Respond(ErrorResp(422,
                <<"Could not transcribe audio. The video may have no speech.">>))
         /\ log' = log

TranscribeOk ==
    /\ UNCHANGED <<jobs, judgeArg, page>>
    /\ pc = "transcribe"
    /\ Called("transcribe")
    /\ \E t \in Transcripts :
          /\ transcript' = t
          /\ IF noSpeech(t) THEN NoSpeechExit
             ELSE pc' = "judge" /\ UNCHANGED <<resp, log, thrown>>
    /\ UNCHANGED <<rev, upload, videoPath, audioPath, fs, proc, stderr, promise,
                   content, judged, inserted, db, returned>>

TranscribeFails ==
    /\ UNCHANGED <<jobs, judgeArg, page>>
    /\ pc = "transcribe"
    /\ Called("transcribe")
    /\ \E m \in TranscribeErrs : Throw(m)
    /\ UNCHANGED <<rev, upload, videoPath, audioPath, fs, proc, stderr, promise,
                   transcript, content, judged, inserted, db, returned>>

\* judgeContent: the completion arrives and is parsed
JudgeReturns ==
    /\ UNCHANGED <<thrown, jobs, page>>
    /\ pc = "judge"
    /\ Called("judge")
    /\ judgeArg' = judgeArgOf(transcript)
    /\ \E c \in Contents :
          /\ content' = c
          /\ judged' = judgeParse(c)
    /\ pc' = "insert"
    /\ UNCHANGED <<rev, upload, videoPath, audioPath, fs, proc, stderr, promise,
                   transcript, inserted, db, resp, returned, log>>

\* judgeContent: groq.chat.completions.create rejects, outside its try block
JudgeFails ==
    /\ UNCHANGED <<jobs, page>>
    /\ pc = "judge"
    /\ Called("judge")
    /\ judgeArg' = judgeArgOf(transcript)
    /\ \E m \in JudgeErrs : Throw(m)
    /\ UNCHANGED <<rev, upload, videoPath, audioPath, fs, proc, stderr, promise,
                   transcript, content, judged, inserted, db, returned>>

\* ------------------------------------------------- POST: persist and answer
judgmentOf(id, file, t, j) ==
    [id |-> id, video_filename |-> file.name, transcript |-> trim(t.s),
     feedback |-> j.feedback, score |-> j.score]

\* the readings of the clock that new Date() takes
Clock == {"2026-01-01T00:00:00.000Z", "2026-01-01T00:00:01.000Z"}

\* a response body built from the untrimmed transcript
responseBodyUntrimmed(id, file, t, j, now) ==
    [id |-> id, video_filename |-> file.name, transcript |-> t.s,
     feedback |-> j.feedback, score |-> j.score, created_at |-> now]

\* the object NextResponse.json is given on success
responseBodyOf(id, file, t, j, now) ==
    [id |-> id, video_filename |-> file.name, transcript |-> trim(t.s),
     feedback |-> j.feedback, score |-> j.score, created_at |-> now]

\* an insert error treated like every other error: thrown
afterInsertThrows(dbError, row, body) ==
    IF dbError THEN db' = db /\ Throw(<<"insert failed">>)
    ELSE db' = db \cup {row} /\ log' = log /\ Respond([status |-> 200, body |-> body])

\* what the handler does with the insert's { error }: log it, go on
afterInsert(dbError, row, body) ==
    /\ db' = IF dbError THEN db ELSE db \cup {row}
    /\ log' = IF dbError THEN log \cup {"db"} ELSE log
    /\ Respond([status |-> 200, body |-> body])

\* supabase.from("judgments").insert(...) resolves to { error }
Insert ==
    /\ UNCHANGED <<jobs, judgeArg, page>>
    /\ pc = "insert"
    /\ Called("insert")
    /\ LET row == judgmentOf(JobId, upload, transcript, judged) IN
          /\ inserted' = row
          /\ \E dbError \in BOOLEAN, now \in Clock :
                afterInsert(dbError, row, responseBodyOf(JobId, upload, transcript, judged, now))
    /\ UNCHANGED <<rev, upload, videoPath, audioPath, fs, proc, stderr, promise,
                   transcript, content, judged, returned>>

\* ----------------------------------------------------------- POST: finally
\* unlink(path): gone afterwards, or rejected (no such file, or the removal
\* of an existing file fails and leaves it)
\* a finally block that repeats a rejected unlink until it succeeds
FinallyVideoRetries ==
    /\ UNCHANGED <<thrown, jobs, judgeArg, page>>
    /\ pc = "finallyVideo"
    /\ IF videoPath = NoPath
       THEN pc' = "finallyAudio" /\ UNCHANGED <<fs, calls>>
       ELSE /\ calls.unlink < 3
            /\ Called("unlink")
            /\ \E ok \in BOOLEAN :
                  /\ ok => videoPath \in fs
                  /\ fs' = IF ok THEN fs \ {videoPath} ELSE fs
                  /\ pc' = IF ok THEN "finallyAudio" ELSE "finallyVideo"
    /\ UNCHANGED <<rev, upload, videoPath, audioPath, proc, stderr, promise,
                   transcript, content, judged, inserted, db, resp, returned, log>>

\* a finally block without its catch: a rejected unlink becomes the answer
FinallyVideoRaises ==
    /\ UNCHANGED <<thrown, jobs, judgeArg, page>>
    /\ pc = "finallyVideo"
    /\ IF videoPath = NoPath
       THEN pc' = "finallyAudio" /\ UNCHANGED <<fs, calls, resp>>
       ELSE /\ Called("unlink")
            /\ \E ok \in BOOLEAN :
                  /\ ok => videoPath \in fs
                  /\ fs' = IF ok THEN fs \ {videoPath} ELSE fs
                  /\ pc' = IF ok THEN "finallyAudio" ELSE "return"
                  /\ resp' = IF ok THEN resp
                             ELSE ErrorResp(500, <<"ENOENT: no such file or directory, unlink">>)
    /\ UNCHANGED <<rev, upload, videoPath, audioPath, proc, stderr, promise,
                   transcript, content, judged, inserted, db, returned, log>>

\* try { if (videoPath) await unlink(videoPath); ... } catch { }
FinallyVideo ==
    /\ UNCHANGED <<thrown, jobs, judgeArg, page>>
    /\ pc = "finallyVideo"
    /\ IF videoPath = NoPath
       THEN pc' = "finallyAudio" /\ UNCHANGED <<fs, calls>>
       ELSE /\ Called("unlink")
            /\ \E ok \in BOOLEAN :
                  /\ ok => videoPath \in fs
                  /\ fs' = IF ok THEN fs \ {videoPath} ELSE fs
                  /\ pc' = IF ok THEN "finallyAudio" ELSE "return"
    /\ UNCHANGED <<rev, upload, videoPath, audioPath, proc, stderr, promise,
                   transcript, content, judged, inserted, db, resp, returned, log>>

FinallyAudio ==
    /\ UNCHANGED <<thrown, jobs, judgeArg, page>>
    /\ pc = "finallyAudio"
    /\ IF audioPath = NoPath
       THEN UNCHANGED <<fs, calls>>
       ELSE /\ Called("unlink")
            /\ \E ok \in BOOLEAN :
                  /\ ok => audioPath \in fs
                  /\ fs' = IF ok THEN fs \ {audioPath} ELSE fs
    /\ pc' = "return"
    /\ UNCHANGED <<rev, upload, videoPath, audioPath, proc, stderr, promise,
                   transcript, content, judged, inserted, db, resp, returned, log>>

\* POST's promise resolves with the response
Return ==
    /\ UNCHANGED <<thrown, jobs, judgeArg, page>>
    /\ pc = "return"
    /\ returned' = Append(returned, resp)
    /\ pc' = "done"
    /\ UNCHANGED <<rev, upload, videoPath, audioPath, fs, proc, stderr, promise,
                   transcript, content, judged, inserted, db, resp, calls, log>>

Next ==
    \/ ParseFails \/ RejectNoFile \/ RejectTooLarge \/ RejectType \/ Accept
    \/ WriteFileOk \/ WriteFileFails
    \/ Spawn \/ StderrData \/ OnClose \/ OnError
    \/ FluentRun \/ FluentEnd \/ FluentError
    \/ ExtractResolved \/ ExtractRejected
    \/ TranscribeOk \/ TranscribeFails
    \/ JudgeReturns \/ JudgeFails
    \/ Insert
    \/ FinallyVideo \/ FinallyAudio \/ Return

Spec == Init /\ [][Next]_vars

\* every pending call of the run settles and the event loop runs what is
\* ready: a step that is possible is eventually taken
\* The runs checked for termination start from every kind of body, every file
\* name and size, and one declared type of each class the route tells
\* apart: an accepted one, a refused one and none
LiveTypes == {"video/mp4", "application/pdf", ""}
LiveUploads == {u \in Uploads : u.kind = "file" => u.type \in LiveTypes}
InitLive == Init /\ upload \in LiveUploads

SpecLive == InitLive /\ [][Next]_vars /\ WF_vars(Next)

\* ------------------------------------------------ requests side by side
\* Every request runs POST on its own; the requests share the file system.
\* A job is followed through the steps of POST that touch a file; no
\* external call fails here by itself, so that a job left alone ends well
\* whenever its video file can be written.
Jobs == 1..MaxJobs

\* uuidv4(): a fresh identifier for every call
uuidv4(j) == IF j = 1 THEN JobId ELSE "uuid-" \o ToString(j)

\* the file names the side-by-side requests carry
JobNames == {<< <<"talk">>, <<"mp4">> >>, << <<"a">>, <<"x", "..", "..", "y">> >>}

NewJob(name) ==
    [name |-> name, pc |-> "parse", videoPath |-> NoPath, audioPath |-> NoPath,
     ok |-> TRUE, touched |-> {}]

\* the variables of the single request, at rest
Idle ==
    /\ upload = Malformed
    /\ pc = "done"
    /\ videoPath = NoPath /\ audioPath = NoPath
    /\ proc = NoProc /\ stderr = <<>> /\ promise = NoPromise
    /\ transcript = Undefined /\ content = NoContent
    /\ judged = NoJudged /\ inserted = NoRecord /\ db = {}
    /\ resp = NoResp /\ returned = <<>> /\ thrown = NoError /\ judgeArg = NoArg
    /\ calls = [write |-> 0, check |-> 0, extract |-> 0, transcribe |-> 0, judge |-> 0,
                insert |-> 0, unlink |-> 0]
    /\ log = {}

InitJobs ==
    /\ rev \in Revisions
    /\ fs = {}
    /\ jobs \in [Jobs -> {NewJob(n) : n \in JobNames}]
    /\ page = NoPage
    /\ Idle

UnchangedSingle ==
    UNCHANGED <<rev, upload, pc, videoPath, audioPath, proc, stderr, promise, transcript,
                content, judged, inserted, db, resp, returned, thrown, judgeArg, calls,
                log>>

\* a step of job j that fails: POST goes to catch and finally
Failed(job) == [job EXCEPT !.ok = FALSE, !.pc = "finallyVideo"]

\* id, ext, videoPath, audioPath
JobAccept(j) ==
    /\ jobs[j].pc = "parse"
    /\ LET job == jobs[j] IN
          jobs' = [jobs EXCEPT ![j] =
                     [job EXCEPT !.videoPath = videoPathOf(rev, uuidv4(j), job.name),
                                 !.audioPath = audioPathOf(rev, uuidv4(j)),
                                 !.pc = "write"]]
    /\ UNCHANGED fs
    /\ UnchangedSingle
    /\ UNCHANGED page

\* writeFile(videoPath, ...): creates or overwrites the file
JobWrite(j) ==
    /\ jobs[j].pc = "write"
    /\ LET job == jobs[j] IN
          IF ParentExists(job.videoPath)
          THEN /\ fs' = fs \cup {job.videoPath}
               /\ jobs' = [jobs EXCEPT ![j] =
                             [job EXCEPT !.pc = "extract",
                                         !.touched = @ \cup {job.videoPath}]]
          ELSE /\ fs' = fs
               /\ jobs' = [jobs EXCEPT ![j] = Failed(job)]
    /\ UnchangedSingle
    /\ UNCHANGED page

\* extractAudio(videoPath, audioPath): reads the video, writes the audio
JobExtract(j) ==
    /\ jobs[j].pc = "extract"
    /\ LET job == jobs[j] IN
          IF job.videoPath \in fs
          THEN /\ fs' = fs \cup {job.audioPath}
               /\ jobs' = [jobs EXCEPT ![j] =
                             [job EXCEPT !.pc = "transcribe",
                                         !.touched = @ \cup {job.videoPath, job.audioPath}]]
          ELSE /\ fs' = fs
               /\ jobs' = [jobs EXCEPT ![j] = Failed(job)]
    /\ UnchangedSingle
    /\ UNCHANGED page

\* transcribeAudio(audioPath) reads the audio; judging and the insert touch
\* no file
JobTranscribe(j) ==
    /\ jobs[j].pc = "transcribe"
    /\ LET job == jobs[j] IN
          IF job.audioPath \in fs
          THEN jobs' = [jobs EXCEPT ![j] =
                          [job EXCEPT !.pc = "finallyVideo",
                                      !.touched = @ \cup {job.audioPath}]]
          ELSE jobs' = [jobs EXCEPT ![j] = Failed(job)]
    /\ UNCHANGED fs
    /\ UnchangedSingle
    /\ UNCHANGED page

\* finally: unlink(videoPath); a rejection (no such file) leaves the try
JobUnlinkVideo(j) ==
    /\ jobs[j].pc = "finallyVideo"
    /\ LET job == jobs[j] IN
          IF job.videoPath \in fs
          THEN /\ fs' = fs \ {job.videoPath}
               /\ jobs' = [jobs EXCEPT ![j] =
                             [job EXCEPT !.pc = "finallyAudio",
                                         !.touched = @ \cup {job.videoPath}]]
          ELSE /\ fs' = fs
               /\ jobs' = [jobs EXCEPT ![j] = [job EXCEPT !.pc = "done"]]
    /\ UnchangedSingle
    /\ UNCHANGED page

\* finally: unlink(audioPath)
JobUnlinkAudio(j) ==
    /\ jobs[j].pc = "finallyAudio"
    /\ LET job == jobs[j] IN
          /\ fs' = fs \ {job.audioPath}
          /\ jobs' = [jobs EXCEPT ![j] =
                        [job EXCEPT !.pc = "done",
                                    !.touched = IF job.audioPath \in fs
                                                THEN @ \cup {job.audioPath} ELSE @]]
    /\ UnchangedSingle
    /\ UNCHANGED page

NextJobs ==
    \E j \in Jobs :
        \/ JobAccept(j) \/ JobWrite(j) \/ JobExtract(j) \/ JobTranscribe(j)
        \/ JobUnlinkVideo(j) \/ JobUnlinkAudio(j)

SpecJobs == InitJobs /\ [][NextJobs]_vars

\* ------------------------------------------------------- the results page
\* parseFeedback(raw) of the page component, lines 529-537 of part_003.  The
\* feedback text is non-JSON text or the text of a JSON value; an object of
\* the structured shape has the members of StructuredFeedback.
Comment == [t |-> "object", score |-> 7, comment |-> <<"clear">>]
Tips(items) == [t |-> "array", items |-> items]
Structured(summary, clarity, tips, engagement, value) ==
    [t |-> "object", summary |-> summary, clarity |-> clarity, tips |-> tips,
     engagement |-> engagement, value |-> value]

\* parsed.summary, parsed.clarity, parsed.tips: undefined on a value that is
\* not an object
Member(v, name) ==
    IF v.t = "object" /\ name \in DOMAIN v THEN v[name] ELSE Undefined

Returned(v) == [threw |-> FALSE, value |-> v]
Thrown(e) == [threw |-> TRUE, error |-> e]

\* the body of the try block: JSON.parse throws a SyntaxError on non-JSON
\* text, the member access throws a TypeError on null
tryParse(raw) ==
    IF raw.k # "json" THEN Thrown("SyntaxError")
    ELSE IF raw.v.t = "null" THEN Thrown("TypeError")
    ELSE IF \/ Truthy(Member(raw.v, "summary"))
            \/ Truthy(Member(raw.v, "clarity"))
            \/ Truthy(Member(raw.v, "tips"))
         THEN Returned(raw.v)
         ELSE Returned(Null)

\* a parser without its try/catch
parseFeedbackNoCatch(raw) == tryParse(raw)

\* try { ... } catch { return null }
parseFeedback(raw) ==
    LET r == tryParse(raw) IN IF r.threw THEN Returned(Null) ELSE r

\* the feedback texts the page is given
Summaries == {Undefined, Str(<<>>), Str(<<"well done">>)}
Clarities == {Undefined, Comment}
TipLists == {Undefined, Tips(<<>>), Tips(<<"slow down">>)}
RawFeedbacks ==
    {Text(<<"plain text response">>), Text(<<>>), Text(<<"{summary:">>),
     Json(Null), Json(Num(0)), Json(Num(5)), Json(Bool(TRUE)), Json(Tips(<<>>)),
     Json(Str(<<"summary">>)), Json(Obj(Num(72), Str(<<"good">>)))}
        \cup {Json(Structured(s, c, t, e, v)) :
                 s \in Summaries, c \in Clarities, t \in TipLists,
                 e \in {Undefined, Comment}, v \in {Undefined, Comment}}

InitPage ==
    /\ rev = "cwd"
    /\ fs = {}
    /\ jobs = NoJobs
    /\ page \in {[shown |-> FALSE, raw |-> raw] : raw \in RawFeedbacks}
    /\ Idle

\* FeedbackDisplay: const structured = parseFeedback(result.feedback)
FeedbackDisplay ==
    /\ ~page.shown
    /\ page' = [shown |-> TRUE, raw |-> page.raw, structured |-> parseFeedback(page.raw)]
    /\ UNCHANGED <<rev, fs, jobs>>
    /\ UnchangedSingle

NextPage == FeedbackDisplay

SpecPage == InitPage /\ [][NextPage]_vars

\* ================================================================= claims
\* the upload is one the pipeline takes in: a File of at most 50 MiB with an
\* accepted type
ValidUpload ==
    /\ upload.kind = "file"
    /\ upload.size <= 52428800
    /\ upload.type \in {"video/mp4", "video/webm", "video/quicktime",
                        "video/x-msvideo", "video/x-matroska"}

IsJudgment(b) ==
    DOMAIN b = {"id", "video_filename", "transcript", "feedback", "score", "created_at"}
\* the five fields of a Judgment that the handler computes
Core(b) ==
    [id |-> b.id, video_filename |-> b.video_filename, transcript |-> b.transcript,
     feedback |-> b.feedback, score |-> b.score]
IsError(b) == DOMAIN b = {"error"}

\* Done: a success response carrying a Judgment whose score is in [1,100]
IsDone(r) == r.status = 200 /\ IsJudgment(r.body) /\ r.body.score \in 1..100
\* Aborted: an error response, one status and one message
IsAborted(r) == r.status \in {400, 422, 500} /\ IsError(r.body) /\ r.body.error # <<>>

\* C1: for every valid upload and every combination of outcomes of the
\* external calls, one run of POST hands the caller exactly one response,
\* which is either Done (a Judgment, score in [1,100]) or Aborted (one error
\* response), never both and never neither; before that nothing was handed
\* back and the run can always take a further step.
C1_OneTerminalOutcome ==
    ValidUpload =>
        /\ pc = "done" =>
              /\ Len(returned) = 1
              /\ IsDone(returned[1]) # IsAborted(returned[1])
        /\ pc # "done" => (returned = <<>> /\ ENABLED Next)

C1_Witness ==
    /\ pc = "done"
    /\ ValidUpload
    /\ IsDone(returned[1])
    /\ "db" \in log

\* C2 (as claimed): once POST has returned, neither the video temp file nor
\* the audio temp file of the job exists, whatever the outcome and also when
\* a removal can fail.
C2_TempFilesGone ==
    pc = "done" => (videoPath \notin fs /\ audioPath \notin fs)

\* C3 (as claimed): once the judging step has run, the job is on its way to
\* Persisting: no outcome of the judging call produces an error response.
C3_JudgingNeverAborts ==
    calls.judge > 0 =>
        /\ pc \in {"insert", "finallyVideo", "finallyAudio", "return", "done"}
        /\ resp.status \in {0, 200}

\* the insert was attempted and the row did not reach the table
InsertFailed == calls.insert = 1 /\ inserted \notin db

\* C4: a failed insert is logged and nothing else: the job does not abort,
\* the response is the success response carrying the Judgment, and that is
\* what the caller gets.
C4_InsertFailureNotFatal ==
    InsertFailed =>
        /\ "db" \in log
        /\ "api" \notin log
        /\ resp.status = 200
        /\ IsJudgment(resp.body)
        /\ Core(resp.body) = inserted
        /\ pc = "done" => returned = <<resp>>

C4_Witness == pc = "done" /\ InsertFailed /\ returned[1].status = 200

NoCalls ==
    [write |-> 0, check |-> 0, extract |-> 0, transcribe |-> 0, judge |-> 0,
     insert |-> 0, unlink |-> 0]

\* the form was read and the upload is one of the three rejections: no file
\* part, a size over the maximum, a declared type outside the accepted set
Rejected == pc # "parse" /\ upload.kind # "malformed" /\ ~ValidUpload

\* C5: every validation rejection ends the job with the validation error
\* response, no temp path was allocated, no temp file written, and the
\* subprocess, the transcription, the judging and the insert were never
\* called.
C5_RejectionTouchesNothing ==
    Rejected =>
        /\ resp.status = 400 /\ IsError(resp.body)
        /\ videoPath = NoPath /\ audioPath = NoPath
        /\ fs = {}
        /\ proc = NoProc
        /\ calls = NoCalls
        /\ db = {}
        /\ pc = "done" => returned = <<resp>>

C5_Witness ==
    /\ pc = "done"
    /\ upload.kind = "file" /\ upload.type = "application/pdf"
    /\ upload.size <= 52428800
    /\ returned[1].status = 400

\* C6: an upload passes Validating (the job gets its temp paths and goes on
\* to save the video) if and only if a file part is present, its size is at
\* most 52,428,800 bytes and its declared type is one of the five accepted.
C6_AcceptedIffValid ==
    (pc # "parse" /\ upload.kind # "malformed") =>
        /\ (videoPath # NoPath) <=> ValidUpload
        /\ (resp.status = 400 /\ calls = NoCalls) <=> ~ValidUpload

C6_Witness ==
    /\ upload.kind = "file" /\ upload.size = 52428800
    /\ calls.write = 1
    /\ videoPath \in fs

\* the transcription resolved to a text that is empty or only white space
BlankTranscript ==
    /\ calls.transcribe = 1
    /\ transcript.t = "str"
    /\ \A i \in 1..Len(transcript.s) : transcript.s[i] \in {" ", "\n"}

NoSpeechResponses ==
    {ErrorResp(422, <<"No speech detected", " in video.">>),
     ErrorResp(422, <<"Could not transcribe audio. The video may have no speech.">>)}

\* C7: when the transcription succeeds with a blank text the job aborts with
\* the no-speech response, and the Content Judge is never called and no
\* record is inserted.
C7_BlankTranscriptAborts ==
    BlankTranscript =>
        /\ resp \in NoSpeechResponses
        /\ calls.judge = 0 /\ calls.insert = 0
        /\ judged = NoJudged /\ inserted = NoRecord /\ db = {}
        /\ pc = "done" => returned = <<resp>>

C7_Witness ==
    /\ pc = "done"
    /\ transcript = Str(<<" ", " ">>)
    /\ calls.transcribe = 1
    /\ returned[1].status = 422

\* the diagnostic text has nothing of the markers the code looks for
Unrelated(text) ==
    \A i \in 1..Len(text) :
        text[i] \notin {"Output file does not contain any stream",
                        "No audio track found", "No speech detected"}
HasMarker(text) ==
    \E i \in 1..Len(text) : text[i] = "Output file does not contain any stream"

NoAudioResponse ==
    ErrorResp(422, <<"No audio track found",
                     " in the video. Please upload a video with sound.">>)

\* C8: (cwd revision) when ffmpeg exits with a non-zero code, extractAudio
\* rejects with the no-audio-track error exactly when the diagnostic text
\* contains the no-stream marker; the response is then the no-audio-track
\* response, and without the marker it is a different response, which for
\* an unrelated diagnostic text is the generic processing failure.
C8_NoAudioTrackClassified ==
    (rev = "cwd" /\ proc.close /\ proc.code > 0) =>
        /\ promise.state = "rejected"
        /\ (promise.err = NoAudioResponse.body.error) <=> HasMarker(stderr)
        /\ resp # NoResp =>
              /\ HasMarker(stderr) <=> (resp = NoAudioResponse)
              /\ ~HasMarker(stderr) => resp.body.error # NoAudioResponse.body.error
              /\ Unrelated(stderr) =>
                    /\ resp.status = 500
                    /\ resp.body.error[1] = "Failed to process video: "

C8_Witness ==
    /\ pc = "done" /\ rev = "cwd"
    /\ proc.close /\ proc.code = 1
    /\ stderr = <<"junk", "Output file does not contain any stream">>
    /\ returned = <<NoAudioResponse>>

C8_WitnessGeneric ==
    /\ pc = "done" /\ rev = "cwd"
    /\ proc.close /\ proc.code = 1
    /\ stderr = <<"junk">>
    /\ returned[1].status = 500

\* C9: every Judgment handed to the insert, stored, or put in a response has
\* an integer score between 1 and 100, whatever the judging service answered.
ScoreInRange(j) == j.score \in 1..100

C9_ScoreAlwaysInRange ==
    /\ judged # NoJudged => ScoreInRange(judged)
    /\ inserted # NoRecord => ScoreInRange(inserted)
    /\ \A row \in db : ScoreInRange(row)
    /\ resp.status = 200 => ScoreInRange(resp.body)
    /\ \A i \in 1..Len(returned) :
          returned[i].status = 200 => ScoreInRange(returned[i].body)

C9_Witness ==
    /\ pc = "done"
    /\ content = Json(Obj(Num(150), Str(<<"good">>)))
    /\ returned[1].status = 200 /\ returned[1].body.score = 100
    /\ Core(returned[1].body) \in db

\* the judging service answered a JSON object
AnsweredObject == calls.judge = 1 /\ judged # NoJudged /\ content.k = "json"
                  /\ content.v.t = "object"

\* C10 (as claimed): when the answer parses as JSON, an integer score field s
\* gives min(100, max(1, s)) and a missing or non-numeric score field (null,
\* a boolean, an array, a string without a digit) gives 50.
C10_ScoreClamped ==
    AnsweredObject =>
        LET v == content.v.score IN
        /\ (v.t = "num" /\ ~v.frac) =>
              judged.score = (IF v.n < 1 THEN 1 ELSE IF v.n > 100 THEN 100 ELSE v.n)
        /\ (v.t \in {"undefined", "null", "bool", "array"}) => judged.score = 50
        /\ (v.t = "str" /\ \A i \in 1..Len(v.s) : v.s[i] \notin {"0", "7"}) =>
              judged.score = 50

\* the judging service answered a text that JSON.parse rejects
AnsweredText == calls.judge = 1 /\ judged # NoJudged /\ content.k = "text"

\* C11: when the content of the judging answer is not JSON, judgeContent
\* returns the content text itself, unchanged, as the feedback together with
\* score 50; the job goes on to the insert, and the record handed to the
\* insert and the success response carry that pair.
C11_UnparsableContentFallsBack ==
    AnsweredText =>
        /\ judged = [feedback |-> Str(content.s), score |-> 50]
        /\ pc \in {"insert", "finallyVideo", "finallyAudio", "return", "done"}
        /\ pc = "insert" => (resp = NoResp /\ ENABLED Insert)
        /\ pc # "insert" =>
              /\ calls.insert = 1
              /\ inserted.feedback = Str(content.s) /\ inserted.score = 50
              /\ resp.status = 200
              /\ resp.body.feedback = Str(content.s) /\ resp.body.score = 50

C11_Witness ==
    /\ pc = "done"
    /\ content = Text(<<"plain text response">>)
    /\ returned[1].status = 200
    /\ returned[1].body.feedback = Str(<<"plain text response">>)
    /\ returned[1].body.score = 50
    /\ inserted \in db

\* the extraction ran to its end and reported success
ExtractionSucceeded ==
    /\ calls.extract = 1
    /\ promise.state = "resolved"
    /\ proc.close /\ proc.code = 0 /\ ~proc.error
    /\ audioPath # NoPath

\* the transcription returned a text that is not blank
SpokenTranscript ==
    /\ calls.transcribe = 1
    /\ transcript.t = "str"
    /\ trim(transcript.s) # <<>>

\* C12: the insert is called, and a row reaches the table, only in a job
\* whose upload passed validation, whose extraction succeeded, whose
\* transcript is non-empty after trimming and whose judging step returned a
\* score; a job that ends with an error response has called no insert and
\* has put no row in the table.
C12_InsertOnlyAfterFullPipeline ==
    /\ (calls.insert > 0 \/ db # {} \/ inserted # NoRecord) =>
          /\ ValidUpload
          /\ ExtractionSucceeded
          /\ SpokenTranscript
          /\ calls.judge = 1 /\ judged # NoJudged /\ judged.score \in 1..100
          /\ db \subseteq {inserted}
          /\ inserted.transcript = trim(transcript.s) /\ inserted.score = judged.score
    /\ resp.status \notin {0, 200} => (calls.insert = 0 /\ db = {} /\ inserted = NoRecord)

C12_WitnessAborted ==
    /\ pc = "done"
    /\ returned[1].status = 500
    /\ calls.judge = 1 /\ judged = NoJudged
    /\ ExtractionSucceeded /\ SpokenTranscript
    /\ db = {}

C12_Witness ==
    /\ pc = "done"
    /\ db = {inserted}
    /\ ExtractionSucceeded /\ SpokenTranscript

\* C13: the Judgment of a success response has the id, video_filename,
\* transcript, feedback and score of the record that was handed to the
\* insert, and once the insert was called the success response is what the
\* job answers, whether the row reached the table or not.
C13_ReturnedRecordIsInsertedRecord ==
    /\ resp.status = 200 =>
          /\ calls.insert = 1
          /\ IsJudgment(resp.body)
          /\ Core(resp.body) = inserted
    /\ calls.insert = 1 => resp.status = 200
    /\ (pc = "done" /\ calls.insert = 1) =>
          /\ returned = <<resp>>
          /\ Core(returned[1].body) = inserted

C13_Witness ==
    /\ pc = "done"
    /\ InsertFailed
    /\ transcript = Str(<<"hi", " ">>)
    /\ returned[1].status = 200
    /\ Core(returned[1].body) = inserted
    /\ returned[1].body.transcript = <<"hi">>

C13_WitnessStored ==
    /\ pc = "done"
    /\ inserted \in db
    /\ transcript = Str(<<" ", "hi">>)
    /\ Core(returned[1].body) = inserted

\* the job aborted through the catch block
Caught == thrown # NoError /\ resp.status \notin {0, 200}

\* causes of an abort, read off the error that was caught
LaunchFailed == Caught /\ thrown \in SpawnErrs \cup {<<"Cannot find ffmpeg">>}
ExitFailed ==
    /\ Caught /\ rev = "cwd"
    /\ proc.close /\ ~proc.error /\ proc.code # 0
    /\ ~HasMarker(stderr)
    /\ thrown = promise.err
ServiceFailed == Caught /\ thrown \in TranscribeErrs \cup JudgeErrs

\* the diagnostic texts a subprocess that exits without the marker can write
OtherStderr == {t \in SeqsUpTo(StderrTokens, MaxChunks) : ~HasMarker(t)}

\* C14 (as claimed): when the job aborts because the subprocess could not be
\* launched, exited with a non-zero code (without the no-stream marker) or a
\* service call failed, the response is the one every other run with the
\* same cause gets: replacing the underlying error's message, or the
\* subprocess's stderr text, by any other leaves the response unchanged.
C14_ResponseIndependentOfDiagnostic ==
    /\ (LaunchFailed /\ thrown \in SpawnErrs) =>
          \A m \in SpawnErrs : resp = catchResponse(rev, m)
    /\ ExitFailed =>
          \A t \in OtherStderr : resp = catchResponse(rev, closeError(proc.code, t))
    /\ (ServiceFailed /\ thrown \in TranscribeErrs) =>
          \A m \in TranscribeErrs : resp = catchResponse(rev, m)
    /\ (ServiceFailed /\ thrown \in JudgeErrs) =>
          \A m \in JudgeErrs : resp = catchResponse(rev, m)

\* the subprocess exited with a non-zero code and the marker in its stderr
NoAudioTrack ==
    /\ Caught /\ rev = "cwd"
    /\ proc.close /\ ~proc.error /\ proc.code # 0
    /\ HasMarker(stderr)
    /\ thrown = promise.err

Is4xx(r) == r.status \in 400..499
Is5xx(r) == r.status \in 500..599

\* C15 (as claimed): the status class of a response is fixed by the reason of
\* the abort: a validation rejection, a blank transcript and a missing audio
\* track answer 4xx; a subprocess that cannot be launched or exits with a
\* non-zero code for another reason, and a failed transcription or judging
\* call, answer 5xx; an error body never has a 2xx status and a Judgment
\* never has another one.
C15_StatusClassByReason ==
    resp # NoResp =>
        /\ Rejected => Is4xx(resp)
        /\ BlankTranscript => Is4xx(resp)
        /\ NoAudioTrack => Is4xx(resp)
        /\ LaunchFailed => Is5xx(resp)
        /\ ExitFailed => Is5xx(resp)
        /\ ServiceFailed => Is5xx(resp)
        /\ IsError(resp.body) => (Is4xx(resp) \/ Is5xx(resp))
        /\ IsJudgment(resp.body) <=> resp.status \in 200..299

\* the job aborted after Accept had assigned videoPath and audioPath
AbortedWithPaths ==
    /\ videoPath # NoPath /\ audioPath # NoPath
    /\ resp.status \notin {0, 200}

\* C16 (as claimed): when a job aborts after its temp paths were assigned,
\* the removal of the video file and the removal of the audio file have both
\* been attempted by the time the response is handed to the caller, nothing
\* is handed back before that, and exactly one response is handed back.
C16_CleanupBeforeResponse ==
    AbortedWithPaths =>
        /\ pc # "done" => returned = <<>>
        /\ pc \in {"return", "done"} => calls.unlink = 2
        /\ pc = "done" => returned = <<resp>>

\* no call of the pipeline was made more than once
AtMostOnce ==
    /\ calls.write <= 1 /\ calls.check <= 1 /\ calls.extract <= 1
    /\ calls.transcribe <= 1 /\ calls.judge <= 1 /\ calls.insert <= 1

\* the extraction failed and POST has seen it
ExtractionFailure == promise.state = "rejected" /\ pc # "awaitExtract"

\* C17 (as claimed): the extraction, the transcription call, the judging call
\* and the insert are each made at most once, and a failure of any of the
\* four, the insert included, ends the job with an error response whose
\* reason is that failure.
C17_NoRetryFailureAborts ==
    /\ AtMostOnce
    /\ ExtractionFailure => (Caught /\ thrown = promise.err /\ calls.transcribe = 0)
    /\ thrown \in TranscribeErrs => (Caught /\ calls.transcribe = 1 /\ calls.judge = 0)
    /\ thrown \in JudgeErrs => (Caught /\ calls.judge = 1 /\ calls.insert = 0)
    /\ InsertFailed => resp.status \notin {0, 200}

\* C17 (amended): the extraction, the transcription call, the judging call
\* and the insert are each made at most once; a failed extraction,
\* transcription or judging call is not repeated and ends the job with an
\* error response whose reason is that failure, before any later stage is
\* started; a failed insert is not repeated either and does not abort the
\* job, which answers the success response.
C17_NoRetry ==
    /\ AtMostOnce
    /\ ExtractionFailure => (Caught /\ thrown = promise.err /\ calls.transcribe = 0)
    /\ thrown \in TranscribeErrs => (Caught /\ calls.transcribe = 1 /\ calls.judge = 0)
    /\ thrown \in JudgeErrs => (Caught /\ calls.judge = 1 /\ calls.insert = 0)
    /\ InsertFailed => (resp.status = 200 /\ thrown = NoError)

C17_Witness ==
    /\ pc = "done"
    /\ ExtractionFailure
    /\ calls.extract = 1
    /\ returned[1].status = 500

C17_WitnessInsert ==
    /\ pc = "done"
    /\ InsertFailed
    /\ calls.insert = 1
    /\ returned[1].status = 200

\* the extraction is in progress: started and not yet settled or exited
Extracting == calls.extract > 0 /\ (promise.state = "pending" \/ ~(proc.close \/ proc.error))

\* C19: the stages of a job start in order, each after the one before it has
\* ended well: the video is written only for a valid upload, the extraction
\* starts only after the video file was written, the transcription only
\* after the extraction succeeded, the judging only after a transcript that
\* is not blank, the insert only after the judging returned, the success
\* response only after the insert; and while the extraction is in progress
\* POST waits for it, so that no two stages are in progress together.
C19_StagesInOrder ==
    /\ calls.write > 0 => (ValidUpload /\ videoPath # NoPath /\ audioPath # NoPath)
    /\ calls.extract > 0 =>
          /\ calls.write = 1
          /\ pc \in {"awaitExtract", "transcribe", "judge", "insert"} => videoPath \in fs
    /\ calls.transcribe > 0 => (calls.extract = 1 /\ ExtractionSucceeded)
    /\ calls.judge > 0 => (calls.transcribe = 1 /\ SpokenTranscript)
    /\ calls.insert > 0 => (calls.judge = 1 /\ judged # NoJudged)
    /\ resp.status = 200 => calls.insert = 1
    /\ Extracting => (pc = "awaitExtract" /\ calls.transcribe = 0)
    /\ pc \in {"transcribe", "judge", "insert"} => (resp = NoResp /\ ~Extracting)

C19_Witness ==
    /\ pc = "done"
    /\ calls = [write |-> 1, check |-> 1, extract |-> 1, transcribe |-> 1, judge |-> 1,
                insert |-> 1, unlink |-> 2]
    /\ returned[1].status = 200
    /\ inserted \in db

\* the extraction subprocess of the cwd revision could not be launched
SpawnFailed == rev = "cwd" /\ calls.extract = 1 /\ proc.error

\* the responses of the cwd revision to a subprocess that was launched and
\* exited with a non-zero code
ExitResponses ==
    {catchResponse("cwd", closeError(code, t)) :
        code \in ExitCodes \ {0}, t \in SeqsUpTo(StderrTokens, MaxChunks)}

\* C20: (cwd revision) a subprocess that cannot be launched makes
\* extractAudio reject with the launch error itself, which is neither the
\* no-audio-track error nor an exit-code error, also after the close event
\* of that process; the response carries that error and differs from the
\* no-audio-track response and from every response to a non-zero exit; and
\* a subprocess that was launched never rejects with a launch error.
C20_LaunchFailureDistinct ==
    /\ SpawnFailed =>
          /\ promise.state = "rejected"
          /\ promise.err \in SpawnErrs
          /\ promise.err # NoAudioResponse.body.error
          /\ promise.err[1] # "ffmpeg exited with code "
          /\ resp # NoResp =>
                /\ resp = ErrorResp(500, <<"Failed to process video: ">> \o promise.err)
                /\ resp # NoAudioResponse
                /\ resp \notin ExitResponses
    /\ (rev = "cwd" /\ proc.close /\ ~proc.error /\ proc.code # 0) =>
          /\ promise.state = "rejected"
          /\ promise.err \notin SpawnErrs
          /\ resp # NoResp => resp \in ExitResponses

C20_Witness ==
    /\ pc = "done"
    /\ SpawnFailed /\ proc.close /\ proc.code < 0
    /\ returned = <<ErrorResp(500, <<"Failed to process video: ", "spawn ffmpeg ENOENT">>)>>

\* the temp paths of a job, once assigned
PathsOf(job) == {job.videoPath, job.audioPath} \ {NoPath}

C21_RemovalFailureSwallowed ==
    [][/\ pc \in {"finallyVideo", "finallyAudio"} =>
              (resp' = resp /\ thrown' = thrown /\ returned' = returned)
       /\ pc = "return" => (resp' = resp /\ (pc' = "done" => returned' = <<resp>>))
       /\ pc = "done" => (resp' = resp /\ returned' = returned)]_vars

C21_Witness ==
    /\ pc = "done"
    /\ videoPath # NoPath /\ videoPath \in fs
    /\ calls.unlink = 1
    /\ returned[1].status = 200
    /\ IsJudgment(returned[1].body)

\* the judging service answered a text that JSON.parse accepts
AnsweredJson == calls.judge = 1 /\ judged # NoJudged /\ content.k = "json"

\* C22 (as claimed): when the content parses as JSON, the feedback returned
\* is the feedback field of the answer, unchanged, whenever the answer has
\* one, and "No feedback generated." when it has none; it is a string in
\* every case.
C22_FeedbackVerbatimOrDefault ==
    AnsweredJson =>
        LET field == Field(content.v, "feedback") IN
        /\ field # Undefined => judged.feedback = field
        /\ field = Undefined => judged.feedback = Str(<<"No feedback generated.">>)
        /\ judged.feedback.t = "str"

\* C23 (as claimed): the transcript handed to the judging call, the one in
\* the record handed to the insert and the one in the success response are
\* the same string, the transcriber's text without its leading and trailing
\* white space, and that string is not empty.
C23_OneTrimmedTranscript ==
    /\ calls.judge > 0 =>
          /\ transcript.t = "str"
          /\ judgeArg = trim(transcript.s)
          /\ judgeArg # <<>>
          /\ judgeArg[1] \notin WhiteSpace /\ judgeArg[Len(judgeArg)] \notin WhiteSpace
    /\ inserted # NoRecord =>
          /\ inserted.transcript = judgeArg
          /\ inserted.transcript = trim(transcript.s)
          /\ inserted.transcript # <<>>
          /\ inserted.transcript[1] \notin WhiteSpace
          /\ inserted.transcript[Len(inserted.transcript)] \notin WhiteSpace
    /\ resp.status = 200 => resp.body.transcript = inserted.transcript
    /\ \A row \in db : row.transcript = inserted.transcript

C23_Witness ==
    /\ pc = "done"
    /\ transcript = Str(<<" ", "hi">>)
    /\ inserted \in db
    /\ inserted.transcript = <<"hi">>
    /\ returned[1].status = 200
    /\ returned[1].body.transcript = <<"hi">>

\* neither temp file of the job exists
BothGone == videoPath # NoPath /\ videoPath \notin fs /\ audioPath \notin fs

\* C24: when the finally block runs for a job whose temp files are both
\* gone already, it changes nothing and raises nothing: the files stay
\* absent, the response, the caught error and the log stay as they were,
\* and the unlink it attempts is rejected, swallowed and ends the block.
C24_CleanupOfNothing ==
    [][(pc \in {"finallyVideo", "finallyAudio"} /\ BothGone) =>
          /\ fs' = fs
          /\ resp' = resp /\ thrown' = thrown /\ returned' = returned /\ log' = log
          /\ calls' # calls => (calls'.unlink = calls.unlink + 1 /\ pc' = "return")]_vars

C24_Witness ==
    /\ pc = "done"
    /\ thrown \in WriteErrs
    /\ BothGone
    /\ calls.unlink = 1
    /\ log = {"api"}
    /\ returned = <<resp>>

\* the feedback text is JSON that carries a summary, clarity or tips member
CarriesStructure(raw) ==
    /\ raw.k = "json"
    /\ raw.v.t = "object"
    /\ \E name \in {"summary", "clarity", "tips"} : Member(raw.v, name) # Undefined

\* C25 (as claimed): for every feedback text parseFeedback does not throw;
\* it returns the parsed object when the text is JSON carrying a summary,
\* clarity or tips member, and null for every other text: non-JSON text,
\* JSON null, numbers, arrays, strings and objects without those members.
C25_ParseFeedbackTolerant ==
    page.shown =>
        /\ ~page.structured.threw
        /\ CarriesStructure(page.raw) => page.structured.value = page.raw.v
        /\ ~CarriesStructure(page.raw) => page.structured.value = Null

\* the feedback text is JSON with a summary, clarity or tips member that is
\* not empty: a non-empty string, an object or an array
HasStructure(raw) ==
    /\ raw.k = "json"
    /\ raw.v.t = "object"
    /\ \E name \in {"summary", "clarity", "tips"} :
          LET m == Member(raw.v, name) IN
          \/ m.t = "str" /\ m.s # <<>>
          \/ m.t \in {"object", "array"}

\* C25 (amended): for every feedback text parseFeedback does not throw; it
\* returns the parsed object when the text is JSON with a non-empty summary,
\* clarity or tips member, and null for every other text: non-JSON text,
\* JSON null, numbers, arrays, strings, objects without those members and
\* objects in which those members are empty.
C25_ParseFeedbackTruthy ==
    page.shown =>
        /\ ~page.structured.threw
        /\ HasStructure(page.raw) => page.structured.value = page.raw.v
        /\ ~HasStructure(page.raw) => page.structured.value = Null

C25_Witness ==
    /\ page.shown
    /\ page.raw = Json(Null)
    /\ page.structured = [threw |-> FALSE, value |-> Null]

C25_WitnessStructured ==
    /\ page.shown
    /\ page.raw = Json(Structured(Str(<<>>), Undefined, Tips(<<>>), Comment, Undefined))
    /\ page.structured.value = page.raw.v

\* the finally block of the job has run
CleanedUp == pc \in {"return", "done"} /\ (videoPath # NoPath => calls.unlink >= 1)

\* C26: when every external call eventually resolves or rejects, every job
\* eventually hands back its one response, a Judgment or an error, after its
\* finally block has run.
C26_EveryJobTerminates ==
    <>(pc = "done" /\ CleanedUp /\ Len(returned) = 1 /\ returned[1].status \in {200, 400, 422, 500})

C26_Witness ==
    /\ pc = "done" /\ CleanedUp
    /\ calls.extract = 1 /\ proc.close /\ proc.code = 1
    /\ calls.unlink = 2
    /\ returned[1].status = 500

\* the finally block has been left
FinallyLeft == pc \in {"return", "done"}

\* C27 (as claimed): once the finally block has been left, the removal of the
\* audio file has been attempted whenever the audio path was assigned, also
\* when the removal of the video file was rejected; an audio file that
\* exists then is one whose own removal was attempted and failed.
C27_AudioRemovalAttempted ==
    /\ (FinallyLeft /\ audioPath # NoPath) => calls.unlink = 2
    /\ (FinallyLeft /\ audioPath \in fs) => calls.unlink = 2

\* C28 (as claimed): once the paths of an accepted upload are assigned, the
\* video path and the audio path are two different paths, whatever the
\* uploaded file is called.
C28_VideoAndAudioPathsDiffer ==
    videoPath # NoPath => videoPath # audioPath

\* the scratch location of the revision that runs: TMP_DIR, or the working
\* directory
Scratch == IF rev = "tmpdir" THEN TMP_DIR ELSE <<>>

\* the path names a file directly inside the scratch location, and the file
\* is a name of the job: its identifier and an extension
DirectlyInScratch(path) ==
    /\ path # NoPath
    /\ parentOf(path) = Scratch
    /\ path[Len(path)].n = JobId

Settled == promise.state \in {"resolved", "rejected"}

\* the outcome of the one call of extractAudio matches the events delivered
\* so far
OutcomeByEvents ==
    (rev = "cwd" /\ calls.extract = 1) =>
        /\ promise.state = "resolved" <=>
               (proc.close /\ proc.code = 0 /\ ~proc.error)
        /\ promise.state = "rejected" <=>
               (proc.error \/ (proc.close /\ proc.code # 0))
        /\ promise.state = "pending" <=> (~proc.error /\ ~proc.close)
        /\ proc.error => promise.err \in SpawnErrs

\* C30: one call of extractAudio settles exactly once: it is resolved only
\* after a close with exit code 0, rejected after a close with another code
\* or a launch error, pending before any of these events, and once it is
\* settled no later event changes the settlement; after an error event and
\* a close event the rejection is the one of the error event.
C30_ExtractAudioSettlesOnce ==
    /\ []OutcomeByEvents
    /\ [][(rev = "cwd" /\ Settled) => promise' = promise]_vars

\* an error event and then a close event were delivered to one call
C30_Witness ==
    /\ rev = "cwd" /\ calls.extract = 1
    /\ proc.error /\ proc.close /\ proc.code = 0 - 2
    /\ promise.state = "rejected" /\ promise.err \in SpawnErrs

====
